---- MODULE Spec2Model ----
(***************************************************************************)
(* EthernetHelper (header-only Arduino library): begin / maintain /        *)
(* isLinkUp / printConfig over the Arduino Ethernet driver.                *)
(*                                                                         *)
(* The class text is the listing in LIBRARY_CHECKLIST.md, lines 117-349.   *)
(* The helper keeps three static fields (usingDHCP, lastLinkStatus,        *)
(* lastLinkCheck); the driver (the global `Ethernet` object), the clock    *)
(* (millis) and the serial log are its environment.                        *)
(*                                                                         *)
(* Time is counted in units of one settle delay (1000 ms); the 32-bit      *)
(* millisecond counter is scaled to ClockBits bits.                        *)
(***************************************************************************)
EXTENDS Integers, Sequences, FiniteSets, TLC

\* ------------------------------------------------------------- bounds

\* width of the scaled `unsigned long` clock
ClockBits == 3
ClockMod == 2 ^ ClockBits
\* the clock runs from 0 (boot) to MaxTime, past the first wrap of millis()
MaxTime == 9
\* largest linkCheckInterval / dhcpTimeout argument tried
MaxInterval == 3
MaxDhcpTimeout == 1
\* link checks the stopwatch counts after one begin()
MaxChecks == 2

\* the timing run with jitter: its clock runs to MaxJitterTime
MaxJitterTime == 17

\* ------------------------------------------------------------- values

\* delay(1000) after the static configuration, in time units
SettleDelay == 1

ZeroIP == <<0, 0, 0, 0>>

MACs == { <<222, 173, 190, 239, 254, 237>> }

\* arguments of begin() tried together with the clock and the link
FallbackIPs == { <<10, 0, 0, 50>> }
Gateways == { ZeroIP, <<10, 0, 0, 254>> }
Subnets == { <<255, 255, 255, 0>> }
DnsServers == { ZeroIP, <<8, 8, 8, 8>> }
DhcpTimeouts == 1 .. MaxDhcpTimeout
Intervals == 0 .. MaxInterval

\* arguments of the first begin() after boot, tried on their own: octets
\* at both ends of 0..255, a last octet that already is 1, several masks
BootFallbackIPs ==
  { <<a, 0, c, d>> : a \in {10, 255}, c \in {0, 255}, d \in {0, 1, 50, 255} }
BootGateways == { ZeroIP, <<10, 0, 0, 254>>, <<10, 0, 0, 1>> }
BootSubnets == { <<255, 255, 255, 0>>, <<255, 255, 0, 0>>, <<255, 255, 255, 252>> }
BootDnsServers == { ZeroIP, <<8, 8, 8, 8>>, <<10, 0, 0, 254>> }

\* what a DHCP server may hand out; the second lease gives the device the
\* very address a sketch uses as its fallback
Leases ==
  { [ip |-> <<10, 0, 0, 77>>, gateway |-> <<10, 0, 0, 1>>,
     subnet |-> <<255, 255, 255, 0>>, dns |-> <<10, 0, 0, 1>>],
    [ip |-> <<10, 0, 0, 50>>, gateway |-> <<10, 0, 0, 2>>,
     subnet |-> <<255, 255, 0, 0>>, dns |-> <<8, 8, 8, 8>>] }

LinkStatuses == { "Unknown", "LinkON", "LinkOFF" }
HardwareStatuses == { "EthernetNoHardware", "EthernetW5500" }
\* Ethernet.maintain(): 0 nothing, 1 renew failed, 2 renewed,
\* 3 rebind failed, 4 rebound
LeaseResults == 0 .. 4

\* ------------------------------------------------------------- state

VARIABLES
  usingDHCP,       \* static bool EthernetHelper::usingDHCP
  lastLinkStatus,  \* static EthernetLinkStatus EthernetHelper::lastLinkStatus
  lastLinkCheck,   \* static unsigned long EthernetHelper::lastLinkCheck
  now,             \* true time since boot (millis() is now modulo ClockMod)
  hardware,        \* what Ethernet.hardwareStatus() reports
  link,            \* what Ethernet.linkStatus() reports
  cfg,             \* the driver's live configuration and how it was obtained
  call,            \* the helper call that has just returned (NoCall otherwise)
  beginTime,       \* stopwatch: true time the watched begin() returned true
  checks,          \* stopwatch: link checks maintain() has run since then
  anchorTime,      \* stopwatch: true time lastLinkCheck stands for (boot: 0)
  logged,          \* stopwatch: transition lines printed since the link last
                   \* changed (-1 until it first changes)
  pc,              \* the statement the running code has reached ("idle": none)
  timer,           \* what remains of the wait that statement is in
  usingStaticIP,   \* bool usingStaticIP of the PeriodicDHCPRetry sketch
  lastDHCPRetry    \* unsigned long lastDHCPRetry of the sketch

vars == <<usingDHCP, lastLinkStatus, lastLinkCheck, now, hardware, link, cfg, call,
         beginTime, checks, anchorTime, logged, pc, timer, usingStaticIP,
         lastDHCPRetry>>
\* the stopwatch of the timing runs; it stands still in the other runs
stopwatch == <<beginTime, checks, anchorTime, logged>>
\* where the code stands in the runs that follow it statement by statement
control == <<pc, timer>>
\* the globals of the PeriodicDHCPRetry sketch
sketch == <<usingStaticIP, lastDHCPRetry>>
helper == <<usingDHCP, lastLinkStatus, lastLinkCheck>>

NoCall == [op |-> "none", args |-> <<>>, ret |-> "void", trace |-> <<>>]

millis(t) == t % ClockMod

\* the distance of the two values, whichever is the later
elapsed_distance(a, b) == IF a >= b THEN a - b ELSE b - a

\* the difference taken as a signed number: wrong once the clock has wrapped
elapsed_signed(a, b) == a - b

\* unsigned subtraction a - b of two clock values
elapsed(a, b) == (a - b + ClockMod) % ClockMod

\* the link taken as seen connected before any check has run
Init_linkSeen ==
  /\ usingDHCP = FALSE
  /\ lastLinkStatus = "LinkON"
  /\ lastLinkCheck = 0
  /\ now = 0
  /\ hardware \in HardwareStatuses
  /\ link \in LinkStatuses
  /\ cfg = [ip |-> ZeroIP, gateway |-> ZeroIP, subnet |-> ZeroIP,
            dns |-> ZeroIP, src |-> "none"]
  /\ call = NoCall
  /\ beginTime = -1
  /\ checks = 0
  /\ anchorTime = 0
  /\ logged = -1
  /\ pc = "idle"
  /\ timer = 0
  /\ usingStaticIP = FALSE
  /\ lastDHCPRetry = 0

Init ==
  /\ usingDHCP = FALSE
  /\ lastLinkStatus = "Unknown"
  /\ lastLinkCheck = 0
  /\ now = 0
  /\ hardware \in HardwareStatuses
  /\ link \in LinkStatuses
  /\ cfg = [ip |-> ZeroIP, gateway |-> ZeroIP, subnet |-> ZeroIP,
            dns |-> ZeroIP, src |-> "none"]
  /\ call = NoCall
  /\ beginTime = -1
  /\ checks = 0
  /\ anchorTime = 0
  /\ logged = -1
  /\ pc = "idle"
  /\ timer = 0
  /\ usingStaticIP = FALSE
  /\ lastDHCPRetry = 0

\* ------------------------------------------------------------- driver

\* Ethernet.begin(mac, timeout): on success the live configuration is the
\* lease. On failure a driver that found its chip either leaves the
\* configuration alone or has cleared the address while it was asking
\* (keep = FALSE); without a chip there is nothing it can write to.
EthernetBeginDhcp(c, status, ok, lease, keep) ==
  IF ok
    THEN [ip |-> lease.ip, gateway |-> lease.gateway, subnet |-> lease.subnet,
          dns |-> lease.dns, src |-> "dhcp"]
    ELSE IF keep \/ status = "EthernetNoHardware"
           THEN c
           ELSE [c EXCEPT !.ip = ZeroIP, !.src = "none"]

\* how long Ethernet.begin(mac, timeout) blocks: no chip, it returns at once;
\* a server that answers does so at once; otherwise the whole timeout passes
dhcpWait(status, ok, dhcpTimeout) ==
  IF ok \/ status = "EthernetNoHardware" THEN 0 ELSE dhcpTimeout

\* a driver taking the third address for the gateway and the fourth for DNS
EthernetBeginStatic_gatewayFirst(mac, ip, dnsArg, gatewayArg, subnetArg) ==
  [ip |-> ip, gateway |-> dnsArg, subnet |-> subnetArg, dns |-> gatewayArg,
   src |-> "static"]

\* Ethernet.begin(mac, ip, dns, gateway, subnet): note the driver's order
EthernetBeginStatic(mac, ip, dnsArg, gatewayArg, subnetArg) ==
  [ip |-> ip, gateway |-> gatewayArg, subnet |-> subnetArg, dns |-> dnsArg,
   src |-> "static"]

\* Ethernet.maintain(): a successful renew or rebind installs the lease the
\* server answered with
EthernetMaintain(c, result, lease) ==
  IF result \in {2, 4}
    THEN [ip |-> lease.ip, gateway |-> lease.gateway, subnet |-> lease.subnet,
          dns |-> lease.dns, src |-> "dhcp"]
    ELSE c

\* ------------------------------------------------------------- helpers

\* the test inverted: a successful DHCP attempt is taken for a failure
dhcpFailed_inverted(result) == result # 0

\* if (Ethernet.begin(mac, dhcpTimeout) == 0)
dhcpFailed(result) == result = 0

\* the test inverted: a present chip is taken for a missing one
hardwareMissing_inverted(status) == status # "EthernetNoHardware"

\* the hardware test left out: the fallback goes on without a chip
hardwareMissing_never(status) == FALSE

\* if (Ethernet.hardwareStatus() == EthernetNoHardware)
hardwareMissing(status) == status = "EthernetNoHardware"

\* the 1 written into the third octet instead of the fourth
defaultGateway_thirdOctet(fallbackIP, gateway) ==
  IF gateway = ZeroIP
    THEN <<fallbackIP[1], fallbackIP[2], 1, fallbackIP[4]>>
    ELSE gateway

\* if (gateway == IPAddress(0,0,0,0)) gateway = IPAddress(ip[0], ip[1], ip[2], 1)
defaultGateway(fallbackIP, gateway) ==
  IF gateway = ZeroIP
    THEN <<fallbackIP[1], fallbackIP[2], fallbackIP[3], 1>>
    ELSE gateway

\* the DNS default left out: the sentinel reaches the driver
defaultDns_none(dns, gateway) == dns

\* if (dns == IPAddress(0,0,0,0)) dns = gateway   (gateway already defaulted)
defaultDns(dns, gateway) == IF dns = ZeroIP THEN gateway ELSE dns

\* the assignment copied from the DHCP branch
fallbackMode_asDhcp == TRUE

\* usingDHCP = false;  after the static configuration
fallbackMode == FALSE

\* usingDHCP = true;  after a successful DHCP attempt
dhcpMode == TRUE

\* the line printIPAddress writes: the four octets separated by dots
printIPAddress(ip) ==
  << <<"println", <<ip[1], ".", ip[2], ".", ip[3], ".", ip[4]>> >> >>

\* printLinkStatus(): the label, one live linkStatus() query, the state
printLinkStatus(status) ==
  << <<"print", "  Link: ">>,
     <<"linkStatus", status>>,
     <<"println", IF status = "LinkON" THEN "Connected"
                  ELSE IF status = "LinkOFF" THEN "Disconnected"
                  ELSE "Unknown">> >>

\* printIPAddress(Ethernet.localIP()): a live read, then the line
reportIP(c) == << <<"localIP", c.ip>> >> \o printIPAddress(c.ip)

\* the gateway, subnet and DNS lines: each a label, a live read, the line
reportRest(c, indent) ==
  << <<"print", indent \o "Gateway: ">>, <<"gatewayIP", c.gateway>> >>
  \o printIPAddress(c.gateway)
  \o << <<"print", indent \o "Subnet: ">>, <<"subnetMask", c.subnet>> >>
  \o printIPAddress(c.subnet)
  \o << <<"print", indent \o "DNS: ">>, <<"dnsServerIP", c.dns>> >>
  \o printIPAddress(c.dns)

\* number of events of one kind in a call's trace
Count(kind, tr) == Cardinality({i \in DOMAIN tr : tr[i][1] = kind})
\* position of the first event of a kind (0 when there is none)
First(kind, tr) ==
  IF Count(kind, tr) = 0 THEN 0
  ELSE CHOOSE i \in DOMAIN tr :
         tr[i][1] = kind /\ \A j \in 1 .. i - 1 : tr[j][1] # kind

\* ------------------------------------------------------------- begin

\* the hardware asked for before the DHCP attempt
beginHead_hardwareFirst(mac, dhcpTimeout, result) ==
  << <<"println", "=== Ethernet Initialization ===">>,
     <<"println", "Attempting DHCP configuration...">>,
     <<"millis", millis(now)>>,
     <<"hardwareStatus", hardware>>,
     <<"Ethernet.begin(mac,timeout)", mac, dhcpTimeout, result>> >>

\* the part of begin() every path runs first: banner, startTime, DHCP
beginHead(mac, dhcpTimeout, result) ==
  << <<"println", "=== Ethernet Initialization ===">>,
     <<"println", "Attempting DHCP configuration...">>,
     <<"millis", millis(now)>>,
     <<"Ethernet.begin(mac,timeout)", mac, dhcpTimeout, result>> >>

\* hardware absent: two error lines and return false, no field written
beginFatal(status) ==
  << <<"println", "DHCP failed!">>,
     <<"hardwareStatus", status>>,
     <<"println", "ERROR: Ethernet shield not found!">>,
     <<"println", "Cannot continue without hardware.">>,
     <<"return", FALSE>> >>

\* the settle delay moved behind the mode assignment
beginFallback_settleLast(mac, fallbackIP, gw, subnet, dn, status, linkStatus) ==
  << <<"println", "DHCP failed!">>,
     <<"hardwareStatus", status>>,
     <<"linkStatus", linkStatus>>,
     <<"println", "Falling back to static IP configuration...">>,
     <<"Ethernet.begin(mac,ip,dns,gateway,subnet)", mac, fallbackIP, dn, gw, subnet>>,
     <<"print", "  Static IP: ">>,
     <<"usingDHCP=", fallbackMode>>,
     <<"delay", SettleDelay>> >>

\* an unplugged cable taken for a reason to give up the fallback
beginFallback_needsCable(mac, fallbackIP, gw, subnet, dn, status, linkStatus) ==
  << <<"println", "DHCP failed!">>,
     <<"hardwareStatus", status>>,
     <<"linkStatus", linkStatus>> >>
  \o (IF linkStatus = "LinkOFF"
        THEN << <<"println", "WARNING: Ethernet cable not connected">> >>
        ELSE << <<"println", "Falling back to static IP configuration...">>,
                <<"Ethernet.begin(mac,ip,dns,gateway,subnet)", mac, fallbackIP, dn, gw, subnet>>,
                <<"delay", SettleDelay>>,
                <<"print", "  Static IP: ">>,
                <<"usingDHCP=", fallbackMode>> >>)

\* DHCP failed, hardware present: warn, default, configure, settle, mark
beginFallback(mac, fallbackIP, gw, subnet, dn, status, linkStatus) ==
  << <<"println", "DHCP failed!">>,
     <<"hardwareStatus", status>>,
     <<"linkStatus", linkStatus>> >>
  \o (IF linkStatus = "LinkOFF"
        THEN << <<"println", "WARNING: Ethernet cable not connected">> >>
        ELSE << >>)
  \o << <<"println", "Falling back to static IP configuration...">>,
        <<"Ethernet.begin(mac,ip,dns,gateway,subnet)", mac, fallbackIP, dn, gw, subnet>>,
        <<"delay", SettleDelay>>,
        <<"print", "  Static IP: ">>,
        <<"usingDHCP=", fallbackMode>> >>

\* DHCP succeeded
beginDynamic ==
  << <<"print", "  DHCP IP: ">>,
     <<"usingDHCP=", dhcpMode>> >>

\* the final report, the anchor of the first link check, return true
beginTail(c, linkStatus, t) ==
  reportIP(c) \o reportRest(c, "  ") \o printLinkStatus(linkStatus)
  \o << <<"println", "=== Ethernet Ready ===">>,
        <<"println", "">>,
        <<"millis", millis(t)>>,
        <<"lastLinkCheck=", millis(t)>>,
        <<"return", TRUE>> >>

\* the no-hardware return made to clear the mode first
begin_failureResets(mac, fallbackIP, gateway, subnet, dns, dhcpTimeout, ok, lease) ==
  LET result == IF ok THEN 1 ELSE 0
      d == dhcpWait(hardware, ok, dhcpTimeout)
      afterDhcp == EthernetBeginDhcp(cfg, hardware, ok, lease, TRUE)
      args == <<mac, fallbackIP, gateway, subnet, dns, dhcpTimeout>>
      head == beginHead(mac, dhcpTimeout, result)
  IN
  /\ ok => hardware # "EthernetNoHardware"
  /\ UNCHANGED <<hardware, link, lastLinkStatus>>
  /\ IF dhcpFailed(result)
       THEN IF hardwareMissing(hardware)
         THEN /\ now + d <= MaxTime
              /\ now' = now + d
              /\ cfg' = afterDhcp
              /\ usingDHCP' = FALSE
              /\ UNCHANGED lastLinkCheck
              /\ call' = [op |-> "begin", args |-> args, ret |-> FALSE,
                          trace |-> head \o beginFatal(hardware)]
         ELSE LET gw == defaultGateway(fallbackIP, gateway)
                  dn == defaultDns(dns, gw)
                  static == EthernetBeginStatic(mac, fallbackIP, dn, gw, subnet)
                  t == now + d + SettleDelay
              IN /\ t <= MaxTime
                 /\ now' = t
                 /\ cfg' = static
                 /\ usingDHCP' = fallbackMode
                 /\ lastLinkCheck' = millis(t)
                 /\ call' = [op |-> "begin", args |-> args, ret |-> TRUE,
                             trace |-> head
                               \o beginFallback(mac, fallbackIP, gw, subnet, dn,
                                                hardware, link)
                               \o beginTail(static, link, t)]
       ELSE /\ now + d <= MaxTime
            /\ now' = now + d
            /\ cfg' = afterDhcp
            /\ usingDHCP' = dhcpMode
            /\ lastLinkCheck' = millis(now + d)
            /\ call' = [op |-> "begin", args |-> args, ret |-> TRUE,
                        trace |-> head \o beginDynamic
                                  \o beginTail(afterDhcp, link, now + d)]

\* static bool begin(mac, fallbackIP, gateway, subnet, dns, dhcpTimeout).
\* ok, lease: what the DHCP attempt meets.
begin(mac, fallbackIP, gateway, subnet, dns, dhcpTimeout, ok, lease) ==
  LET result == IF ok THEN 1 ELSE 0
      d == dhcpWait(hardware, ok, dhcpTimeout)
      afterDhcp == EthernetBeginDhcp(cfg, hardware, ok, lease, TRUE)
      args == <<mac, fallbackIP, gateway, subnet, dns, dhcpTimeout>>
      head == beginHead(mac, dhcpTimeout, result)
  IN
  /\ ok => hardware # "EthernetNoHardware"
  /\ UNCHANGED <<hardware, link, lastLinkStatus>>
  /\ IF dhcpFailed(result)
       THEN IF hardwareMissing(hardware)
         THEN /\ now + d <= MaxTime
              /\ now' = now + d
              /\ cfg' = afterDhcp
              /\ UNCHANGED <<usingDHCP, lastLinkCheck>>
              /\ call' = [op |-> "begin", args |-> args, ret |-> FALSE,
                          trace |-> head \o beginFatal(hardware)]
         ELSE LET gw == defaultGateway(fallbackIP, gateway)
                  dn == defaultDns(dns, gw)
                  static == EthernetBeginStatic(mac, fallbackIP, dn, gw, subnet)
                  t == now + d + SettleDelay
              IN /\ t <= MaxTime
                 /\ now' = t
                 /\ cfg' = static
                 /\ usingDHCP' = fallbackMode
                 /\ lastLinkCheck' = millis(t)
                 /\ call' = [op |-> "begin", args |-> args, ret |-> TRUE,
                             trace |-> head
                               \o beginFallback(mac, fallbackIP, gw, subnet, dn,
                                                hardware, link)
                               \o beginTail(static, link, t)]
       ELSE /\ now + d <= MaxTime
            /\ now' = now + d
            /\ cfg' = afterDhcp
            /\ usingDHCP' = dhcpMode
            /\ lastLinkCheck' = millis(now + d)
            /\ call' = [op |-> "begin", args |-> args, ret |-> TRUE,
                        trace |-> head \o beginDynamic
                                  \o beginTail(afterDhcp, link, now + d)]

\* a lease matters only to a call that obtains one
AnyLease == CHOOSE l \in Leases : TRUE

Begin ==
  /\ UNCHANGED <<stopwatch, control, sketch>>
  /\ \E mac \in MACs, fallbackIP \in FallbackIPs, gateway \in Gateways,
        subnet \in Subnets, dns \in DnsServers, dhcpTimeout \in DhcpTimeouts,
        ok \in BOOLEAN :
       \E lease \in (IF ok THEN Leases ELSE {AnyLease}) :
         begin(mac, fallbackIP, gateway, subnet, dns, dhcpTimeout, ok, lease)

\* the first begin() after boot, over the wider argument sets
BootBegin ==
  /\ now = 0
  /\ cfg.src = "none"
  /\ UNCHANGED <<stopwatch, control, sketch>>
  /\ \E mac \in MACs, fallbackIP \in BootFallbackIPs, gateway \in BootGateways,
        subnet \in BootSubnets, dns \in BootDnsServers,
        dhcpTimeout \in DhcpTimeouts, ok \in BOOLEAN :
       \E lease \in (IF ok THEN Leases ELSE {AnyLease}) :
         begin(mac, fallbackIP, gateway, subnet, dns, dhcpTimeout, ok, lease)

\* ------------------------------------------------------------- maintain

\* the mode test left out: the lease is maintained in either mode
leaseMaintained_always(mode) == TRUE

\* the mode test always failing: the lease is never maintained
leaseMaintained_never(mode) == FALSE

\* if (usingDHCP): lease maintenance runs only in DHCP mode
leaseMaintained(mode) == mode

\* the gate left out: every call runs the check
linkCheckDue_always(t, last, linkCheckInterval) == TRUE

\* the anchor added to the interval instead of subtracted from the clock:
\* right until the clock wraps
linkCheckDue_deadline(t, last, linkCheckInterval) == t >= last + linkCheckInterval

\* > for >=: the check comes one tick late
linkCheckDue_strict(t, last, linkCheckInterval) == elapsed(t, last) > linkCheckInterval

\* if (millis() - lastLinkCheck >= linkCheckInterval)
linkCheckDue(t, last, linkCheckInterval) == elapsed(t, last) >= linkCheckInterval

\* a first reading is stored in silence: no change from Unknown
linkChanged_fromKnown(status, last) == status # last /\ last # "Unknown"

\* the comparison left out: every check counts as a change
linkChanged_always(status, last) == TRUE

\* if (linkStatus != lastLinkStatus)
linkChanged(status, last) == status # last

\* byte result = Ethernet.maintain(); switch (result) { case 1 .. 4 }
maintainLease(result, c) ==
  << <<"Ethernet.maintain", result>> >>
  \o CASE result = 1 -> << <<"println", "DHCP: Renew failed">> >>
       [] result = 2 -> << <<"print", "DHCP: Renewed - IP: ">> >> \o reportIP(c)
       [] result = 3 -> << <<"println", "DHCP: Rebind failed">> >>
       [] result = 4 -> << <<"print", "DHCP: Rebound - IP: ">> >> \o reportIP(c)
       [] OTHER -> << >>

\* the link check: one query, the transition line when the state differs
\* from the stored one, the new anchor
maintainLink(status, last, t) ==
  << <<"linkStatus", status>> >>
  \o (IF linkChanged(status, last)
        THEN << <<"print", "Link status changed: ">>,
                <<"println", IF status = "LinkON" THEN "Cable CONNECTED"
                             ELSE IF status = "LinkOFF" THEN "Cable DISCONNECTED"
                             ELSE "Unknown">>,
                <<"lastLinkStatus=", status>> >>
        ELSE << >>)
  \o << <<"millis", millis(t)>>, <<"lastLinkCheck=", millis(t)>> >>

\* static void maintain(linkCheckInterval), called at time t.
\* result, lease: what Ethernet.maintain() answers.
maintainAt(t, linkCheckInterval, result, lease) ==
  LET leased == leaseMaintained(usingDHCP)
      afterLease == IF leased THEN EthernetMaintain(cfg, result, lease) ELSE cfg
      leaseTrace == IF leased THEN maintainLease(result, afterLease) ELSE << >>
      due == linkCheckDue(millis(t), lastLinkCheck, linkCheckInterval)
  IN
  /\ now' = t
  /\ cfg' = afterLease
  /\ UNCHANGED <<usingDHCP, hardware, link>>
  /\ IF due
       THEN /\ lastLinkStatus' = IF linkChanged(link, lastLinkStatus)
                                   THEN link ELSE lastLinkStatus
            /\ lastLinkCheck' = millis(t)
            /\ call' = [op |-> "maintain", args |-> <<linkCheckInterval>>,
                        ret |-> "void",
                        trace |-> leaseTrace \o << <<"millis", millis(t)>> >>
                                  \o maintainLink(link, lastLinkStatus, t)]
       ELSE /\ UNCHANGED <<lastLinkStatus, lastLinkCheck>>
            /\ call' = [op |-> "maintain", args |-> <<linkCheckInterval>>,
                        ret |-> "void",
                        trace |-> leaseTrace \o << <<"millis", millis(t)>> >>]

\* a call made at the present time
maintain(linkCheckInterval, result, lease) ==
  maintainAt(now, linkCheckInterval, result, lease)

Maintain ==
  /\ UNCHANGED <<stopwatch, control, sketch>>
  /\ \E linkCheckInterval \in Intervals,
        result \in (IF usingDHCP THEN LeaseResults ELSE {0}) :
       \E lease \in (IF result \in {2, 4} THEN Leases ELSE {AnyLease}) :
         maintain(linkCheckInterval, result, lease)

\* ------------------------------------------------------------- queries

\* anything but LinkOFF taken for a connected cable
linkUp_notOff(status) == status # "LinkOFF"

\* return Ethernet.linkStatus() == LinkON;
linkUp(status) == status = "LinkON"

\* static bool isLinkUp()
isLinkUp ==
  /\ UNCHANGED <<usingDHCP, lastLinkStatus, lastLinkCheck, now, hardware, link, cfg,
               stopwatch, control, sketch>>
  /\ call' = [op |-> "isLinkUp", args |-> << >>, ret |-> linkUp(link),
              trace |-> << <<"linkStatus", link>>, <<"return", linkUp(link)>> >>]

\* the two names exchanged
modeName_exchanged(mode) == IF mode THEN "Static" ELSE "DHCP"

\* Serial.println(usingDHCP ? F("DHCP") : F("Static"));
modeName(mode) == IF mode THEN "DHCP" ELSE "Static"

\* static void printConfig()
printConfig ==
  /\ UNCHANGED <<usingDHCP, lastLinkStatus, lastLinkCheck, now, hardware, link, cfg,
               stopwatch, control, sketch>>
  /\ call' = [op |-> "printConfig", args |-> << >>, ret |-> "void",
              trace |-> << <<"println", "=== Network Configuration ===">>,
                           <<"print", "IP: ">> >>
                        \o reportIP(cfg) \o reportRest(cfg, "")
                        \o << <<"print", "Mode: ">>,
                              <<"println", modeName(usingDHCP)>> >>
                        \o printLinkStatus(link)
                        \o << <<"println", "============================">> >>]

\* ------------------------------------------------------------- environment

\* time passes between two calls of the sketch's loop
Tick ==
  /\ now < MaxTime
  /\ now' = now + 1
  /\ call' = NoCall
  /\ UNCHANGED <<usingDHCP, lastLinkStatus, lastLinkCheck, hardware, link, cfg,
               stopwatch, control, sketch>>

\* the cable is plugged or pulled, or the chip stops reporting the link
LinkChange ==
  /\ link' \in LinkStatuses \ {link}
  /\ call' = NoCall
  /\ UNCHANGED <<usingDHCP, lastLinkStatus, lastLinkCheck, now, hardware, cfg,
               stopwatch, control, sketch>>

\* the shield is seated or comes loose
HardwareChange ==
  /\ hardware' \in HardwareStatuses \ {hardware}
  /\ call' = NoCall
  /\ UNCHANGED <<usingDHCP, lastLinkStatus, lastLinkCheck, now, link, cfg,
               stopwatch, control, sketch>>

Next ==
  \/ Begin
  \/ Maintain
  \/ isLinkUp
  \/ printConfig
  \/ Tick
  \/ LinkChange
  \/ HardwareChange

Spec == Init /\ [][Next]_vars

\* the first begin() after boot and the queries that follow it
BootNext ==
  \/ BootBegin
  \/ isLinkUp
  \/ printConfig
  \/ LinkChange
  \/ HardwareChange

BootSpec == Init /\ [][BootNext]_vars

\* ------------------------------------------------------------- timing runs

\* the stopwatch: started by every begin() that returns true, it counts the
\* link checks of the maintain() calls that follow
watch(c) ==
  /\ beginTime' = (IF c.op = "begin" /\ c.ret = TRUE THEN now' ELSE beginTime)
  /\ checks' = (IF c.op = "begin" /\ c.ret = TRUE THEN 0
                ELSE checks + Count("linkStatus", c.trace))
  /\ anchorTime' = (IF Count("lastLinkCheck=", c.trace) > 0 THEN now'
                    ELSE anchorTime)
  /\ UNCHANGED logged

\* begin() at any time, with the default gateway and DNS arguments
WatchedBegin ==
  /\ \E mac \in MACs, fallbackIP \in FallbackIPs, subnet \in Subnets,
        dhcpTimeout \in DhcpTimeouts, ok \in BOOLEAN :
       begin(mac, fallbackIP, ZeroIP, subnet, ZeroIP, dhcpTimeout, ok, AnyLease)
  /\ watch(call')
  /\ UNCHANGED <<control, sketch>>

\* maintain() at any time with any interval, the lease undisturbed
WatchedMaintain ==
  /\ checks < MaxChecks
  /\ \E linkCheckInterval \in Intervals :
       maintain(linkCheckInterval, 0, AnyLease)
  /\ watch(call')
  /\ UNCHANGED <<control, sketch>>

ScheduleNext ==
  \/ WatchedBegin
  \/ WatchedMaintain
  \/ Tick
  \/ LinkChange

\* begin() and maintain() called at arbitrary times, the stopwatch running
ScheduleSpec == Init /\ [][ScheduleNext]_vars

\* the interval every maintain() call of the run with jitter passes, and the
\* longest time its loop lets pass between two calls (shorter than the interval)
JitterInterval == 3
JitterGap == 2

\* setup(): begin() at boot, the stopwatch started
JitterBegin ==
  /\ now = 0
  /\ beginTime = -1
  /\ \E mac \in MACs, fallbackIP \in FallbackIPs, subnet \in Subnets,
        dhcpTimeout \in DhcpTimeouts, ok \in BOOLEAN :
       begin(mac, fallbackIP, ZeroIP, subnet, ZeroIP, dhcpTimeout, ok, AnyLease)
  /\ watch(call')
  /\ UNCHANGED <<control, sketch>>

\* loop(): the next maintain() call comes at most JitterGap after the last
\* call, always with the same interval
JitterLoop ==
  /\ beginTime >= 0
  /\ \E gap \in 1 .. JitterGap :
       /\ now + gap <= MaxJitterTime
       /\ maintainAt(now + gap, JitterInterval, 0, AnyLease)
  /\ watch(call')
  /\ UNCHANGED <<control, sketch>>

JitterNext ==
  \/ JitterBegin
  \/ JitterLoop
  \/ LinkChange

\* begin() once, then maintain() in a loop whose period jitters
JitterSpec == Init /\ [][JitterNext]_vars

\* ------------------------------------------------------------- statement by statement

\* the cable test held against the fallback: begin() waits for the cable
afterLinkTest_waitForCable(status) ==
  IF status = "LinkOFF" THEN "begin:link" ELSE "begin:static"

\* if (Ethernet.linkStatus() == LinkOFF) only prints a warning: whatever the
\* answer, the next statement is the static configuration
afterLinkTest(status) == "begin:static"

\* one tick of a bounded wait (the driver's DHCP attempt, delay(1000))
wait ==
  /\ timer > 0
  /\ timer' = timer - 1
  /\ now' = now + 1

\* a call of begin(): banner, startTime, and into Ethernet.begin(mac, timeout),
\* which a server that answers leaves at once with the lease
CallBegin ==
  /\ pc = "idle"
  /\ \E dhcpTimeout \in DhcpTimeouts, ok \in BOOLEAN :
       /\ ok => hardware # "EthernetNoHardware"
       /\ now + dhcpTimeout + SettleDelay <= MaxTime
       /\ timer' = dhcpWait(hardware, ok, dhcpTimeout)
       /\ IF dhcpFailed(IF ok THEN 1 ELSE 0)
            THEN /\ pc' = "begin:dhcp"
                 /\ UNCHANGED <<usingDHCP, cfg>>
            ELSE /\ pc' = "begin:report"
                 /\ usingDHCP' = dhcpMode
                 /\ \E lease \in Leases :
                      cfg' = EthernetBeginDhcp(cfg, hardware, ok, lease, TRUE)
  /\ UNCHANGED <<lastLinkStatus, lastLinkCheck, now, hardware, link, call,
                 stopwatch, sketch>>

\* Ethernet.begin(mac, dhcpTimeout) waiting for an answer that does not come
BeginDhcpWait ==
  /\ pc = "begin:dhcp"
  /\ IF timer > 0
       THEN wait /\ UNCHANGED pc
       ELSE pc' = "begin:hardware" /\ UNCHANGED <<timer, now>>
  /\ UNCHANGED <<helper, hardware, link, cfg, call, stopwatch, sketch>>

\* if (Ethernet.hardwareStatus() == EthernetNoHardware) ... return false;
BeginHardwareTest ==
  /\ pc = "begin:hardware"
  /\ pc' = (IF hardwareMissing(hardware) THEN "idle" ELSE "begin:link")
  /\ UNCHANGED <<helper, now, hardware, link, cfg, call, timer, stopwatch, sketch>>

\* if (Ethernet.linkStatus() == LinkOFF) warning
BeginLinkTest ==
  /\ pc = "begin:link"
  /\ pc' = afterLinkTest(link)
  /\ UNCHANGED <<helper, now, hardware, link, cfg, call, timer, stopwatch, sketch>>

\* the defaults, Ethernet.begin(mac, fallbackIP, dns, gateway, subnet), and
\* into delay(1000)
BeginStatic ==
  /\ pc = "begin:static"
  /\ \E mac \in MACs, fallbackIP \in FallbackIPs, gateway \in Gateways,
        subnet \in Subnets, dns \in DnsServers :
       LET gw == defaultGateway(fallbackIP, gateway)
           dn == defaultDns(dns, gw)
       IN cfg' = EthernetBeginStatic(mac, fallbackIP, dn, gw, subnet)
  /\ pc' = "begin:settle"
  /\ timer' = SettleDelay
  /\ UNCHANGED <<helper, now, hardware, link, call, stopwatch, sketch>>

\* delay(1000); usingDHCP = false;
BeginSettle ==
  /\ pc = "begin:settle"
  /\ IF timer > 0
       THEN wait /\ UNCHANGED <<pc, usingDHCP>>
       ELSE /\ pc' = "begin:report"
            /\ usingDHCP' = fallbackMode
            /\ UNCHANGED <<timer, now>>
  /\ UNCHANGED <<lastLinkStatus, lastLinkCheck, hardware, link, cfg, call,
                 stopwatch, sketch>>

\* the report, lastLinkCheck = millis(); return true;
BeginReport ==
  /\ pc = "begin:report"
  /\ lastLinkCheck' = millis(now)
  /\ pc' = "idle"
  /\ UNCHANGED <<usingDHCP, lastLinkStatus, now, hardware, link, cfg, call,
                 timer, stopwatch, sketch>>

\* the calls of the three other operations
CallOther ==
  /\ pc = "idle"
  /\ pc' \in {"maintain:lease", "isLinkUp:query", "printConfig:report"}
  /\ UNCHANGED <<helper, now, hardware, link, cfg, call, timer, stopwatch, sketch>>

\* if (usingDHCP) { Ethernet.maintain(); switch ... }
MaintainLease ==
  /\ pc = "maintain:lease"
  /\ IF leaseMaintained(usingDHCP)
       THEN \E result \in LeaseResults :
              \E lease \in (IF result \in {2, 4} THEN Leases ELSE {AnyLease}) :
                cfg' = EthernetMaintain(cfg, result, lease)
       ELSE UNCHANGED cfg
  /\ pc' = "maintain:gate"
  /\ UNCHANGED <<helper, now, hardware, link, call, timer, stopwatch, sketch>>

\* if (millis() - lastLinkCheck >= linkCheckInterval) { the check }
MaintainGate ==
  /\ pc = "maintain:gate"
  /\ \E linkCheckInterval \in Intervals :
       IF linkCheckDue(millis(now), lastLinkCheck, linkCheckInterval)
         THEN /\ lastLinkStatus' = (IF linkChanged(link, lastLinkStatus)
                                      THEN link ELSE lastLinkStatus)
              /\ lastLinkCheck' = millis(now)
         ELSE UNCHANGED <<lastLinkStatus, lastLinkCheck>>
  /\ pc' = "idle"
  /\ UNCHANGED <<usingDHCP, now, hardware, link, cfg, call, timer, stopwatch,
                 sketch>>

\* return Ethernet.linkStatus() == LinkON;  and the lines of printConfig()
QueryReturn ==
  /\ pc \in {"isLinkUp:query", "printConfig:report"}
  /\ pc' = "idle"
  /\ UNCHANGED <<helper, now, hardware, link, cfg, call, timer, stopwatch, sketch>>

\* the processor goes on to the next statement of the running operation
Advance ==
  \/ BeginDhcpWait
  \/ BeginHardwareTest
  \/ BeginLinkTest
  \/ BeginStatic
  \/ BeginSettle
  \/ BeginReport
  \/ MaintainLease
  \/ MaintainGate
  \/ QueryReturn

StepNext ==
  \/ CallBegin
  \/ CallOther
  \/ Advance
  \/ LinkChange
  \/ HardwareChange

\* the operations followed statement by statement; a running operation is
\* not abandoned, and the driver's DHCP attempt ends within its timeout
StepSpec == Init /\ [][StepNext]_vars /\ WF_vars(Advance)

\* ------------------------------------------------------------- PeriodicDHCPRetry

\* const unsigned long DHCP_RETRY_INTERVAL = 60000, DHCP_TIMEOUT = 15000 and
\* the default linkCheckInterval = 10000 of maintain(), on the scaled clock
DHCP_RETRY_INTERVAL == 2
DHCP_TIMEOUT == 1
defaultLinkCheckInterval == 3
\* delay(1000) after the sketch's own static configuration
restoreDelay == 1

\* byte mac[], IPAddress fallbackIP(...): one address each
sketchMac == CHOOSE mac \in MACs : TRUE
sketchFallbackIP == CHOOSE ip \in FallbackIPs : TRUE

\* setup(): begin() with the gateway and DNS left to default; a false return
\* halts the sketch, otherwise usingStaticIP = (localIP() == fallbackIP) and
\* lastDHCPRetry = millis(). (Its printConfig() call prints only.)
SketchSetup ==
  /\ pc = "idle"
  /\ now = 0
  /\ cfg.src = "none"
  /\ \E ok \in BOOLEAN :
       \E lease \in (IF ok THEN Leases ELSE {AnyLease}) :
         begin(sketchMac, sketchFallbackIP, ZeroIP, <<255, 255, 255, 0>>, ZeroIP,
               DHCP_TIMEOUT, ok, lease)
  /\ IF call'.ret = TRUE
       THEN /\ pc' = "loop"
            /\ usingStaticIP' = (cfg'.ip = sketchFallbackIP)
            /\ lastDHCPRetry' = millis(now')
       ELSE /\ pc' = "halted"
            /\ UNCHANGED sketch
  /\ UNCHANGED <<timer, stopwatch>>

\* loop(): EthernetHelper::maintain();
SketchMaintain ==
  /\ pc = "loop"
  /\ \E result \in (IF usingDHCP THEN LeaseResults ELSE {0}) :
       \E lease \in (IF result \in {2, 4} THEN Leases ELSE {AnyLease}) :
         maintain(defaultLinkCheckInterval, result, lease)
  /\ pc' = "retry"
  /\ UNCHANGED <<timer, stopwatch, sketch>>

\* if (usingStaticIP) if (millis() - lastDHCPRetry >= DHCP_RETRY_INTERVAL)
retryDue(t) ==
  usingStaticIP /\ elapsed(millis(t), lastDHCPRetry) >= DHCP_RETRY_INTERVAL

\* the test left out: a lost address is never restored
addressLost_never(ip) == FALSE

\* if (currentIP != fallbackIP)  after the failed attempt
addressLost(ip) == ip # sketchFallbackIP

\* void attemptDHCPRetry(): nothing without a cable; otherwise the sketch's
\* own Ethernet.begin(mac, DHCP_TIMEOUT); on success usingStaticIP = false,
\* on failure the static configuration again if the address was lost.
\* ok, lease, keep: what the DHCP attempt meets and does to the address.
attemptDHCPRetry(ok, lease, keep) ==
  LET up == linkUp(link)
      d == dhcpWait(hardware, ok, DHCP_TIMEOUT)
      afterDhcp == EthernetBeginDhcp(cfg, hardware, ok, lease, keep)
      lost == addressLost(afterDhcp.ip)
      gateway == <<sketchFallbackIP[1], sketchFallbackIP[2], sketchFallbackIP[3], 1>>
      restored == EthernetBeginStatic(sketchMac, sketchFallbackIP, gateway, gateway,
                                      <<255, 255, 255, 0>>)
      result == IF ok THEN 1 ELSE 0
      t == IF ~up THEN now
           ELSE IF ok THEN now + d
           ELSE IF lost THEN now + d + restoreDelay ELSE now + d
  IN
  /\ ok => (hardware # "EthernetNoHardware" /\ up)
  /\ t <= MaxTime
  /\ now' = t
  /\ cfg' = (IF ~up THEN cfg
             ELSE IF ok THEN afterDhcp
             ELSE IF lost THEN restored ELSE afterDhcp)
  /\ usingStaticIP' = (IF up /\ ok THEN FALSE ELSE usingStaticIP)
  /\ call' = [op |-> "attemptDHCPRetry", args |-> << >>, ret |-> "void",
              trace |-> << <<"linkStatus", link>> >>
                \o (IF ~up
                      THEN << <<"println", "Cable disconnected - skipping DHCP retry">> >>
                      ELSE << <<"Ethernet.begin(mac,timeout)", sketchMac,
                                DHCP_TIMEOUT, result>> >>
                           \o (IF ok
                                 THEN << <<"println", "DHCP retry SUCCESSFUL!">>,
                                         <<"usingStaticIP=", FALSE>> >>
                                 ELSE << <<"localIP", afterDhcp.ip>> >>
                                      \o (IF lost
                                            THEN << <<"Ethernet.begin(mac,ip,dns,gateway,subnet)",
                                                      sketchMac, sketchFallbackIP, gateway,
                                                      gateway, <<255, 255, 255, 0>> >>,
                                                    <<"delay", restoreDelay>> >>
                                            ELSE << >>)))]
  /\ UNCHANGED <<helper, hardware, link>>

\* loop(): the retry when it is due, then lastDHCPRetry = millis()
SketchRetry ==
  /\ pc = "retry"
  /\ IF retryDue(now)
       THEN /\ \E ok \in BOOLEAN, keep \in BOOLEAN :
                 \E lease \in (IF ok THEN Leases ELSE {AnyLease}) :
                   attemptDHCPRetry(ok, lease, keep)
            /\ lastDHCPRetry' = millis(now')
       ELSE /\ call' = NoCall
            /\ UNCHANGED <<helper, now, hardware, link, cfg, sketch>>
  /\ pc' = "delay"
  /\ UNCHANGED <<timer, stopwatch>>

\* loop(): delay(100), a fraction of the time unit
SketchDelay ==
  /\ pc = "delay"
  /\ \E passed \in {0, 1} :
       /\ now + passed <= MaxTime
       /\ now' = now + passed
  /\ pc' = "loop"
  /\ call' = NoCall
  /\ UNCHANGED <<helper, hardware, link, cfg, timer, stopwatch, sketch>>

SketchNext ==
  \/ SketchSetup
  \/ SketchMaintain
  \/ SketchRetry
  \/ SketchDelay
  \/ LinkChange
  \/ HardwareChange

\* the PeriodicDHCPRetry sketch: setup() once, then loop()
SketchSpec == Init /\ [][SketchNext]_vars

\* ------------------------------------------------------------- properties

DhcpCall == "Ethernet.begin(mac,timeout)"
StaticCall == "Ethernet.begin(mac,ip,dns,gateway,subnet)"

\* some event of this kind carries this value
Answered(kind, value, tr) ==
  \E i \in DOMAIN tr : tr[i][1] = kind /\ tr[i][2] = value

\* the first event of a kind
Event(kind, tr) == tr[First(kind, tr)]

\* the result of the DHCP attempt of a begin() call
DhcpResult(tr) == Event(DhcpCall, tr)[4]

\* the arguments of a begin() call
ArgFallbackIP(c) == c.args[2]
ArgGateway(c) == c.args[3]
ArgSubnet(c) == c.args[4]
ArgDns(c) == c.args[5]

\* a lease as the driver's live configuration
Leased(l) ==
  [ip |-> l.ip, gateway |-> l.gateway, subnet |-> l.subnet, dns |-> l.dns,
   src |-> "dhcp"]

\* C1: begin() returns false exactly when the hardware check it makes after
\* a failed DHCP attempt reports no hardware; a failed DHCP attempt with the
\* hardware present, whatever the link, returns true with the static
\* fallback configuration live in the driver.
C1_FalseIffNoHardware ==
  call.op = "begin" =>
    /\ (call.ret = FALSE) <=> Answered("hardwareStatus", "EthernetNoHardware", call.trace)
    /\ (call.ret = FALSE) <=> (hardware = "EthernetNoHardware")
    /\ (DhcpResult(call.trace) = 0 /\ hardware # "EthernetNoHardware") =>
         /\ call.ret = TRUE
         /\ Count(StaticCall, call.trace) = 1
         /\ cfg.src = "static"
         /\ cfg.ip = ArgFallbackIP(call)
         /\ cfg.subnet = ArgSubnet(call)

\* C1 witness: DHCP failed with the cable unplugged, begin() returned true
\* on the static fallback.
C1_Witness ==
  /\ call.op = "begin"
  /\ DhcpResult(call.trace) = 0
  /\ link = "LinkOFF"
  /\ call.ret = TRUE
  /\ cfg.src = "static"

\* C2: a maintain() call makes exactly one Ethernet.maintain() call when the
\* mode is DHCP and none when it is static, for every interval and link
\* state; the mode is written only by a begin() that returns true, which
\* leaves it DHCP exactly when its DHCP attempt succeeded.
C2_LeaseOnlyInDhcpMode ==
  [][ /\ call'.op = "maintain" =>
           Count("Ethernet.maintain", call'.trace) = (IF usingDHCP THEN 1 ELSE 0)
      /\ usingDHCP' # usingDHCP => (call'.op = "begin" /\ call'.ret = TRUE)
      /\ (call'.op = "begin" /\ call'.ret = TRUE) =>
           (usingDHCP' <=> DhcpResult(call'.trace) # 0)
    ]_vars

\* C2 witness: a maintain() call on the static fallback that ran its link
\* check and made no lease call.
C2_Witness ==
  /\ call.op = "maintain"
  /\ ~usingDHCP
  /\ cfg.src = "static"
  /\ Count("linkStatus", call.trace) = 1
  /\ Count("Ethernet.maintain", call.trace) = 0

\* C3 as stated: in every state after helper calls, DHCP mode means the
\* live address came from DHCP and static mode means it was assigned by the
\* static configuration call.
C3_AsStated ==
  call.op # "none" =>
    /\ usingDHCP => cfg.src = "dhcp"
    /\ ~usingDHCP => cfg.src = "static"

\* the stored mode agrees with the way the live address was obtained
ModeMatchesSource ==
  /\ usingDHCP => cfg.src = "dhcp"
  /\ ~usingDHCP => cfg.src = "static"

\* C3 amended: from the first begin() that returns true on, DHCP mode means
\* the live address came from DHCP and static mode means it was assigned by
\* the static configuration call: every begin() that returns true
\* establishes the agreement and no helper call or change of the
\* environment breaks it. (Until then the mode holds its initial value,
\* static, and no address has been assigned.)
C3_ModeMatchesSource ==
  [][ /\ (call'.op = "begin" /\ call'.ret = TRUE) => ModeMatchesSource'
      /\ ModeMatchesSource => ModeMatchesSource'
    ]_vars

\* C3 witness: a begin() that fell back to static, called after maintain()
\* had already run a link check, with mode and source in agreement.
C3_Witness ==
  /\ call.op = "begin"
  /\ call.ret = TRUE
  /\ ~usingDHCP
  /\ cfg.src = "static"
  /\ lastLinkStatus # "Unknown"

\* C4: on the fallback path with the gateway argument 0.0.0.0 the gateway
\* handed to the static configuration call is the fallback address with its
\* last octet set to 1, whatever the subnet mask.
C4_GatewayDefault ==
  (/\ call.op = "begin"
   /\ ArgGateway(call) = ZeroIP
   /\ Count(StaticCall, call.trace) > 0) =>
    LET ip == ArgFallbackIP(call)
        expected == <<ip[1], ip[2], ip[3], 1>>
    IN /\ Count(StaticCall, call.trace) = 1
       /\ Event(StaticCall, call.trace)[5] = expected
       /\ cfg.gateway = expected

\* C4 witness: a fallback address that already ends in 1, under a /16 mask.
C4_Witness ==
  /\ call.op = "begin"
  /\ ArgGateway(call) = ZeroIP
  /\ ArgFallbackIP(call) = <<255, 0, 255, 1>>
  /\ ArgSubnet(call) = <<255, 255, 0, 0>>
  /\ cfg.src = "static"
  /\ cfg.gateway = <<255, 0, 255, 1>>

\* C5: on the fallback path the DNS handed to the driver is the gateway
\* handed to it when the DNS argument is 0.0.0.0; a gateway or DNS argument
\* other than 0.0.0.0 is handed over unchanged.
C5_DnsDefault ==
  (call.op = "begin" /\ Count(StaticCall, call.trace) > 0) =>
    LET static == Event(StaticCall, call.trace)
    IN /\ ArgDns(call) = ZeroIP => (static[4] = static[5] /\ cfg.dns = cfg.gateway)
       /\ ArgDns(call) # ZeroIP => (static[4] = ArgDns(call) /\ cfg.dns = ArgDns(call))
       /\ ArgGateway(call) # ZeroIP =>
            (static[5] = ArgGateway(call) /\ cfg.gateway = ArgGateway(call))

\* C5 witness: gateway and DNS both defaulted, the DNS following the derived
\* gateway.
C5_Witness ==
  /\ call.op = "begin"
  /\ ArgGateway(call) = ZeroIP
  /\ ArgDns(call) = ZeroIP
  /\ cfg.src = "static"
  /\ cfg.ip = <<10, 0, 0, 50>>
  /\ cfg.dns = <<10, 0, 0, 1>>

\* the number of "Link status changed: " entries a call logged
TransitionEntries(tr) ==
  Cardinality({i \in DOMAIN tr :
                 tr[i][1] = "print" /\ tr[i][2] = "Link status changed: "})

Checked(c) == c.op = "maintain" /\ Count("linkStatus", c.trace) = 1

\* C7: every link check leaves lastLinkStatus equal to the state it
\* queried, so the next check compares against the previous check's state;
\* a check that finds a state other than the stored one (LinkON after
\* LinkOFF, LinkOFF after LinkON) logs exactly one transition entry and
\* stores the new state, a check that finds the stored state logs none and
\* leaves it.
C7_OneEntryPerChange ==
  [][ Checked(call') =>
        /\ lastLinkStatus' = link
        /\ link # lastLinkStatus => TransitionEntries(call'.trace) = 1
        /\ link = lastLinkStatus =>
             (TransitionEntries(call'.trace) = 0 /\ UNCHANGED lastLinkStatus)
    ]_vars

\* C7 witness: a check that logged the cable as disconnected.
C7_Witness ==
  /\ Checked(call)
  /\ TransitionEntries(call.trace) = 1
  /\ Answered("println", "Cable DISCONNECTED", call.trace)
  /\ lastLinkStatus = "LinkOFF"

\* C8: a begin() whose hardware check reports no hardware returns false
\* whatever its arguments and the link state, without the static
\* configuration call and without the settle delay: the driver's
\* configuration is as before the call.
C8_NoHardwareNoStatic ==
  [][ (call'.op = "begin" /\ hardware = "EthernetNoHardware") =>
        /\ call'.ret = FALSE
        /\ Answered("hardwareStatus", "EthernetNoHardware", call'.trace)
        /\ Count(StaticCall, call'.trace) = 0
        /\ Count("delay", call'.trace) = 0
        /\ cfg' = cfg
    ]_vars

\* C8 witness: begin() returned false with the cable connected and an
\* earlier static configuration still live.
C8_Witness ==
  /\ call.op = "begin"
  /\ call.ret = FALSE
  /\ link = "LinkON"
  /\ cfg.src = "static"

\* C9: a begin() whose DHCP attempt succeeds returns true in DHCP mode
\* without hardware or link test before the report, without the static
\* configuration call and without the settle delay; the live configuration
\* is the lease as obtained, also when gateway and DNS were left to default.
C9_DhcpSuccess ==
  [][ (call'.op = "begin" /\ DhcpResult(call'.trace) # 0) =>
        /\ call'.ret = TRUE
        /\ usingDHCP'
        /\ Count("hardwareStatus", call'.trace) = 0
        /\ Count(StaticCall, call'.trace) = 0
        /\ Count("delay", call'.trace) = 0
        /\ \E l \in Leases : cfg' = Leased(l)
        /\ Answered("localIP", cfg'.ip, call'.trace)
    ]_vars

\* C9 witness: the lease 10.0.0.77 obtained by a call that left the gateway
\* and the DNS server to default.
C9_Witness ==
  /\ call.op = "begin"
  /\ call.ret = TRUE
  /\ usingDHCP
  /\ ArgGateway(call) = ZeroIP
  /\ ArgDns(call) = ZeroIP
  /\ cfg.ip = <<10, 0, 0, 77>>
  /\ cfg.gateway = <<10, 0, 0, 1>>

\* C10: isLinkUp() makes one live linkStatus() query and returns true
\* exactly when it answers LinkON (LinkOFF and Unknown give false); it
\* leaves usingDHCP, lastLinkStatus and lastLinkCheck alone.
C10_IsLinkUpLive ==
  [][ call'.op = "isLinkUp" =>
        /\ call'.ret = (link = "LinkON")
        /\ call'.trace = << <<"linkStatus", link>>, <<"return", link = "LinkON">> >>
        /\ UNCHANGED <<usingDHCP, lastLinkStatus, lastLinkCheck>>
    ]_vars

\* C10 witness: isLinkUp() returned true while the last state logged by
\* maintain() was a disconnected cable.
C10_Witness ==
  /\ call.op = "isLinkUp"
  /\ call.ret = TRUE
  /\ lastLinkStatus = "LinkOFF"

\* a lease failure answered by Ethernet.maintain(): renew or rebind failed
LeaseFailed(c) ==
  c.op = "maintain" /\ \E r \in {1, 3} : Answered("Ethernet.maintain", r, c.trace)

\* C11: a maintain() call in DHCP mode makes its Ethernet.maintain() call and,
\* whichever of the five results it gets, leaves the mode DHCP; what becomes
\* of lastLinkStatus and lastLinkCheck is decided by the interval gate and the
\* link alone, never by the result. A maintain() call that follows a renew or
\* rebind failure makes the Ethernet.maintain() call again.
C11_LeaseResultKeepsMode ==
  [][ /\ (call'.op = "maintain" /\ usingDHCP) =>
           LET due == elapsed(millis(now'), lastLinkCheck) >= call'.args[1]
           IN /\ Count("Ethernet.maintain", call'.trace) = 1
              /\ Event("Ethernet.maintain", call'.trace)[2] \in LeaseResults
              /\ usingDHCP'
              /\ lastLinkStatus' = (IF due THEN link ELSE lastLinkStatus)
              /\ lastLinkCheck' = (IF due THEN millis(now') ELSE lastLinkCheck)
      /\ LeaseFailed(call') => usingDHCP'
      /\ (LeaseFailed(call) /\ call'.op = "maintain") =>
           Count("Ethernet.maintain", call'.trace) = 1
    ]_vars

\* C11 witness: a rebind failure reported by a call that ran no link check;
\* the mode is still DHCP.
C11_Witness ==
  /\ call.op = "maintain"
  /\ Answered("Ethernet.maintain", 3, call.trace)
  /\ Answered("println", "DHCP: Rebind failed", call.trace)
  /\ Count("linkStatus", call.trace) = 0
  /\ usingDHCP

\* a maintain() call that is the first to come after a begin() that returned
\* true, or comes before any link check has followed that begin()
BeforeFirstCheck == beginTime >= 0 /\ checks = 0

\* C12 as stated: after begin() returned true at time T no maintain() call
\* runs a link check before linkCheckInterval has passed since T, and the
\* first maintain() call at or after T + linkCheckInterval runs one.
C12_AsStated ==
  [][ (call'.op = "maintain" /\ BeforeFirstCheck) =>
        LET linkCheckInterval == call'.args[1]
            since == now' - beginTime
        IN /\ since < linkCheckInterval => Count("linkStatus", call'.trace) = 0
           /\ since >= linkCheckInterval => Count("linkStatus", call'.trace) = 1
    ]_vars

\* C12 amended: after begin() returned true at time T no maintain() call
\* runs a link check before linkCheckInterval has passed since T, and the
\* first maintain() call at or after T + linkCheckInterval runs one provided
\* it comes before the millis() clock has gone once round since T (2^32 ms);
\* the gate sees the time since T only modulo the width of the clock.
C12_FirstCheckAfterBegin ==
  [][ (call'.op = "maintain" /\ BeforeFirstCheck) =>
        LET linkCheckInterval == call'.args[1]
            since == now' - beginTime
        IN /\ since < linkCheckInterval =>
                /\ Count("linkStatus", call'.trace) = 0
                /\ UNCHANGED lastLinkCheck
           /\ (since >= linkCheckInterval /\ since < ClockMod) =>
                Count("linkStatus", call'.trace) = 1
           /\ since >= ClockMod =>
                (Count("linkStatus", call'.trace) = 1
                   <=> since % ClockMod >= linkCheckInterval)
    ]_vars

\* C12 witness: the first link check after a begin(), run by a maintain()
\* call that came later than the interval asked for.
C12_Witness ==
  /\ call.op = "maintain"
  /\ beginTime >= 0
  /\ checks = 1
  /\ Count("linkStatus", call.trace) = 1
  /\ call.args[1] = 2
  /\ now = beginTime + 3

\* the longest wait an operation can be in
LongestWait == IF MaxDhcpTimeout > SettleDelay THEN MaxDhcpTimeout ELSE SettleDelay

\* C13: every call of begin(), maintain(), isLinkUp() and printConfig()
\* returns, given that the driver's DHCP attempt ends within its timeout:
\* whatever the DHCP answer, the hardware and the link, the only waits on any
\* path are that attempt and the settle delay, and both count down.
C13_EveryCallReturns ==
  /\ [](timer \in 0 .. LongestWait)
  /\ [][timer' > timer => pc = "idle" \/ pc' = "begin:settle"]_vars
  /\ (pc # "idle") ~> (pc = "idle")

\* C13 witness: a begin() past the failed DHCP attempt and the settle delay
\* with the cable unplugged, about to return.
C13_Witness ==
  /\ pc = "begin:report"
  /\ ~usingDHCP
  /\ cfg.src = "static"
  /\ link = "LinkOFF"
  /\ now >= MaxDhcpTimeout + SettleDelay

\* C14: a begin() that takes the static fallback runs the settle delay
\* exactly once, as the statement right after the static configuration call
\* and before usingDHCP is set to false; a begin() on the DHCP path or on
\* the no-hardware path, and every maintain(), isLinkUp() and printConfig(),
\* runs no delay.
C14_SettleDelayOnce ==
  /\ (call.op = "begin" /\ Count(StaticCall, call.trace) > 0) =>
       /\ Count(StaticCall, call.trace) = 1
       /\ Count("delay", call.trace) = 1
       /\ Event("delay", call.trace) = <<"delay", SettleDelay>>
       /\ First("delay", call.trace) = First(StaticCall, call.trace) + 1
       /\ Count("usingDHCP=", call.trace) = 1
       /\ Event("usingDHCP=", call.trace) = <<"usingDHCP=", FALSE>>
       /\ First("usingDHCP=", call.trace) > First("delay", call.trace)
  /\ (call.op = "begin" /\ Count(StaticCall, call.trace) = 0) =>
       /\ Count("delay", call.trace) = 0
       /\ call.ret = FALSE \/ DhcpResult(call.trace) # 0
  /\ call.op \in {"maintain", "isLinkUp", "printConfig"} =>
       Count("delay", call.trace) = 0

\* C14 witness: a fallback begin() that warned about the cable, configured,
\* settled and then marked the mode.
C14_Witness ==
  /\ call.op = "begin"
  /\ Answered("println", "WARNING: Ethernet cable not connected", call.trace)
  /\ Count("delay", call.trace) = 1
  /\ First(StaticCall, call.trace) + 1 = First("delay", call.trace)
  /\ ~usingDHCP
  /\ now >= SettleDelay

\* the lines a call printed right behind a label
PrintedAfter(label, tr) ==
  {tr[i + 1][2] : i \in {j \in 1 .. Len(tr) - 1 :
                           /\ tr[j][1] = "print"
                           /\ tr[j][2] = label
                           /\ tr[j + 1][1] = "println"}}

\* the dotted form of an address
Dotted(ip) == <<ip[1], ".", ip[2], ".", ip[3], ".", ip[4]>>

\* one live read of this kind, answered with this address and printed
ReadLive(kind, ip, tr) ==
  /\ Count(kind, tr) = 1
  /\ Event(kind, tr)[2] = ip
  /\ tr[First(kind, tr) + 1][1] = "println"
  /\ tr[First(kind, tr) + 1][2] = Dotted(ip)

\* the line printed for the link state queried
LinkLine(tr) == tr[First("linkStatus", tr) + 1][2]

\* C15: printConfig() leaves usingDHCP, lastLinkStatus and lastLinkCheck as
\* they are and makes no configuring driver call (no Ethernet.begin, no
\* Ethernet.maintain), so the live configuration is as before; the mode it
\* prints is the stored usingDHCP, and the address, gateway, subnet, DNS and
\* link state it prints are the driver's at the time of the call.
C15_PrintConfigReadsOnly ==
  [][ call'.op = "printConfig" =>
        /\ UNCHANGED <<usingDHCP, lastLinkStatus, lastLinkCheck, cfg>>
        /\ Count(DhcpCall, call'.trace) = 0
        /\ Count(StaticCall, call'.trace) = 0
        /\ Count("Ethernet.maintain", call'.trace) = 0
        /\ PrintedAfter("Mode: ", call'.trace)
             = {IF usingDHCP THEN "DHCP" ELSE "Static"}
        /\ ReadLive("localIP", cfg.ip, call'.trace)
        /\ ReadLive("gatewayIP", cfg.gateway, call'.trace)
        /\ ReadLive("subnetMask", cfg.subnet, call'.trace)
        /\ ReadLive("dnsServerIP", cfg.dns, call'.trace)
        /\ Count("linkStatus", call'.trace) = 1
        /\ Event("linkStatus", call'.trace)[2] = link
        /\ LinkLine(call'.trace)
             = (IF link = "LinkON" THEN "Connected"
                ELSE IF link = "LinkOFF" THEN "Disconnected" ELSE "Unknown")
    ]_vars

\* C15 witness: printConfig() in DHCP mode reporting a connected cable while
\* the state last logged by maintain() is a disconnected one.
C15_Witness ==
  /\ call.op = "printConfig"
  /\ usingDHCP
  /\ lastLinkStatus = "LinkOFF"
  /\ link = "LinkON"
  /\ LinkLine(call.trace) = "Connected"
  /\ PrintedAfter("Mode: ", call.trace) = {"DHCP"}

\* C16: lastLinkStatus is Unknown at the start and is changed only by a
\* maintain() call that runs its link check; begin() on each of its three
\* paths, isLinkUp() and printConfig() leave it as it is, although begin()
\* on its two successful paths, isLinkUp() and printConfig() query the
\* link. So it is Unknown until the first link check.
C16_OnlyTheCheckObserves ==
  /\ lastLinkStatus = "Unknown"
  /\ [][ /\ lastLinkStatus' # lastLinkStatus => Checked(call')
         /\ call'.op \in {"begin", "isLinkUp", "printConfig"} =>
              UNCHANGED lastLinkStatus
         /\ (call'.op = "begin" /\ call'.ret = TRUE) =>
              Count("linkStatus", call'.trace) >= 1
         /\ call'.op \in {"isLinkUp", "printConfig"} =>
              Count("linkStatus", call'.trace) = 1
         /\ call'.op # "none" => Count("lastLinkStatus=", call'.trace)
                                   = (IF lastLinkStatus' # lastLinkStatus
                                        THEN 1 ELSE 0)
       ]_vars

\* C16 witness: a fallback begin() that queried a connected link twice (the
\* cable test and the report) and left lastLinkStatus Unknown.
C16_Witness ==
  /\ call.op = "begin"
  /\ call.ret = TRUE
  /\ Count("linkStatus", call.trace) = 2
  /\ link = "LinkON"
  /\ lastLinkStatus = "Unknown"

CableWarning == "WARNING: Ethernet cable not connected"

\* the number of cable warnings a call logged
Warnings(tr) ==
  Cardinality({i \in DOMAIN tr : tr[i][1] = "println" /\ tr[i][2] = CableWarning})

\* what a fallback with these arguments hands to the driver, as a live
\* configuration
StaticFor(c) ==
  LET ip == ArgFallbackIP(c)
      gw == IF ArgGateway(c) = ZeroIP THEN <<ip[1], ip[2], ip[3], 1>>
            ELSE ArgGateway(c)
      dn == IF ArgDns(c) = ZeroIP THEN gw ELSE ArgDns(c)
  IN [ip |-> ip, gateway |-> gw, subnet |-> ArgSubnet(c), dns |-> dn,
      src |-> "static"]

\* C17: a begin() whose DHCP attempt fails with the hardware present has an
\* outcome fixed by its arguments and the clock alone, the same for a link
\* that is up, down or unknown: it returns true, the driver holds the static
\* configuration of the arguments, the mode is static, lastLinkCheck is the
\* time of return, the settle delay ran once. The link decides only whether
\* the cable warning is logged (LinkOFF) or not.
C17_LinkOnlyWarns ==
  [][ (/\ call'.op = "begin"
       /\ DhcpResult(call'.trace) = 0
       /\ hardware # "EthernetNoHardware") =>
        /\ call'.ret = TRUE
        /\ Count(StaticCall, call'.trace) = 1
        /\ Event(StaticCall, call'.trace)
             = <<StaticCall, call'.args[1], StaticFor(call').ip,
                 StaticFor(call').dns, StaticFor(call').gateway,
                 StaticFor(call').subnet>>
        /\ cfg' = StaticFor(call')
        /\ usingDHCP' = FALSE
        /\ lastLinkCheck' = millis(now')
        /\ Count("delay", call'.trace) = 1
        /\ UNCHANGED lastLinkStatus
        /\ Warnings(call'.trace) = (IF link = "LinkOFF" THEN 1 ELSE 0)
    ]_vars

\* C17 witness: the fallback completed on a link the chip cannot report, no
\* warning logged.
C17_Witness ==
  /\ call.op = "begin"
  /\ DhcpResult(call.trace) = 0
  /\ call.ret = TRUE
  /\ link = "Unknown"
  /\ Warnings(call.trace) = 0
  /\ cfg = StaticFor(call)
  /\ lastLinkCheck = millis(now)

\* C18 as stated: with a fixed interval and calls at most JitterGap (less
\* than the interval) apart, the k-th link check after begin() comes no
\* later than one interval after anchor + k * interval, for every k.
C18_AsStated ==
  [][ (Checked(call') /\ beginTime >= 0) =>
        now' <= beginTime + checks' * call'.args[1] + call'.args[1]
    ]_vars

\* C18 amended: with a fixed interval and calls at most d (less than the
\* interval) apart, every link check comes at least one interval and less
\* than interval + d after the one before it (the first: after the anchor
\* begin() set), because each check moves the anchor to its own time. So
\* the k-th check is never early and lags anchor + k * interval by less
\* than k * d: the lateness of the single checks adds up, it is not held
\* within one interval.
C18_LatenessAddsUp ==
  [][ (call'.op = "maintain" /\ beginTime >= 0) =>
        LET linkCheckInterval == call'.args[1]
            longest == linkCheckInterval + JitterGap - 1
        IN /\ Checked(call') =>
                /\ elapsed(millis(now'), lastLinkCheck) >= linkCheckInterval
                /\ elapsed(millis(now'), lastLinkCheck) <= longest
                /\ now' >= beginTime + checks' * linkCheckInterval
                /\ now' <= beginTime + checks' * longest
           /\ ~Checked(call') =>
                /\ now' < beginTime + checks' * longest + linkCheckInterval
                /\ UNCHANGED lastLinkCheck
    ]_vars

\* C18 witness: the fourth check after begin(), each one a time unit late,
\* comes more than one interval behind the fixed grid.
C18_Witness ==
  /\ Checked(call)
  /\ beginTime >= 0
  /\ checks = 4
  /\ now = beginTime + 4 * (JitterInterval + 1)
  /\ now > beginTime + 4 * JitterInterval + JitterInterval

\* C19: a fallback whose gateway G and DNS server N are both given, differ
\* and are not 0.0.0.0 makes the static call as (mac, ip, N, G, subnet),
\* the driver's order; afterwards the live gateway is G, the live DNS is N,
\* the live address is the fallback address and the live subnet the mask
\* given.
C19_DriverOrder ==
  (/\ call.op = "begin"
   /\ Count(StaticCall, call.trace) > 0
   /\ ArgGateway(call) # ZeroIP
   /\ ArgDns(call) # ZeroIP
   /\ ArgGateway(call) # ArgDns(call)) =>
    /\ Event(StaticCall, call.trace)
         = <<StaticCall, call.args[1], ArgFallbackIP(call), ArgDns(call),
             ArgGateway(call), ArgSubnet(call)>>
    /\ cfg.gateway = ArgGateway(call)
    /\ cfg.dns = ArgDns(call)
    /\ cfg.ip = ArgFallbackIP(call)
    /\ cfg.subnet = ArgSubnet(call)
    /\ cfg.src = "static"

\* C19 witness: gateway 10.0.0.254 and DNS 8.8.8.8 live after the fallback,
\* each in its place.
C19_Witness ==
  /\ call.op = "begin"
  /\ call.ret = TRUE
  /\ ArgGateway(call) = <<10, 0, 0, 254>>
  /\ ArgDns(call) = <<8, 8, 8, 8>>
  /\ cfg.src = "static"
  /\ cfg.gateway = <<10, 0, 0, 254>>
  /\ cfg.dns = <<8, 8, 8, 8>>
  /\ cfg.subnet = <<255, 255, 0, 0>>

\* the sketch's own DHCP attempt obtained a lease
RetrySucceeded(c) ==
  /\ c.op = "attemptDHCPRetry"
  /\ Count(DhcpCall, c.trace) = 1
  /\ DhcpResult(c.trace) # 0

\* C20 as stated: in the PeriodicDHCPRetry sketch, once begin() has fallen
\* back to static and a later attemptDHCPRetry() has obtained a lease, the
\* helper's mode is DHCP and every following maintain() call of loop() makes
\* the Ethernet.maintain() call.
C20_AsStated ==
  [][ /\ (RetrySucceeded(call') /\ ~usingDHCP) => usingDHCP'
      /\ (call'.op = "maintain" /\ ~usingStaticIP /\ cfg.src = "dhcp") =>
           Count("Ethernet.maintain", call'.trace) = 1
    ]_vars

\* C20 witness: a maintain() call of loop() made on an address leased by the
\* sketch's retry: the helper's mode is still static and the lease is not
\* maintained.
C20_Witness ==
  /\ call.op = "maintain"
  /\ pc = "retry"
  /\ ~usingStaticIP
  /\ cfg.src = "dhcp"
  /\ ~usingDHCP
  /\ Count("Ethernet.maintain", call.trace) = 0

\* C21 as stated: attemptDHCPRetry() leaves out its DHCP attempt only when
\* the link is LinkOFF; with LinkON and with Unknown it makes the attempt.
C21_AsStated ==
  [][ call'.op = "attemptDHCPRetry" =>
        (Count(DhcpCall, call'.trace) = 0 <=> link = "LinkOFF")
    ]_vars

\* C21 witness: a retry that was due on a chip that cannot report the link
\* and was skipped as if the cable were unplugged.
C21_Witness ==
  /\ call.op = "attemptDHCPRetry"
  /\ link = "Unknown"
  /\ usingStaticIP
  /\ Count(DhcpCall, call.trace) = 0
  /\ Count("println", call.trace) = 1

\* the sketch's own DHCP attempt was made and failed
RetryFailed(c) ==
  /\ c.op = "attemptDHCPRetry"
  /\ Count(DhcpCall, c.trace) = 1
  /\ DhcpResult(c.trace) = 0

\* the static configuration attemptDHCPRetry() restores
Restored ==
  LET gateway == <<sketchFallbackIP[1], sketchFallbackIP[2], sketchFallbackIP[3], 1>>
  IN [ip |-> sketchFallbackIP, gateway |-> gateway, subnet |-> <<255, 255, 255, 0>>,
      dns |-> gateway, src |-> "static"]

\* C22: when attemptDHCPRetry() returns after a DHCP attempt that failed,
\* the live address is fallbackIP: either the configuration is as it was
\* or it is the static one re-applied with gateway and DNS fallbackIP[0..2].1;
\* usingStaticIP is still true.
C22_FailedRetryKeepsFallback ==
  [][ RetryFailed(call') =>
        /\ cfg'.ip = sketchFallbackIP
        /\ Count(StaticCall, call'.trace) = 0 => cfg' = cfg
        /\ Count(StaticCall, call'.trace) > 0 => cfg' = Restored
        /\ usingStaticIP /\ usingStaticIP'
    ]_vars

\* C22 witness: a failed retry after which the address had to be restored,
\* the address before it being a renewed lease other than fallbackIP.
C22_Witness ==
  /\ RetryFailed(call)
  /\ Count(StaticCall, call.trace) = 1
  /\ Event("localIP", call.trace)[2] = <<10, 0, 0, 77>>
  /\ cfg = Restored
  /\ usingStaticIP

\* C23 as stated: when setup() has completed with a begin() that returned
\* true, usingStaticIP is true exactly if the helper fell back to static,
\* whatever address the DHCP attempt obtained.
C23_AsStated ==
  (call.op = "begin" /\ call.ret = TRUE /\ pc = "loop") =>
    (usingStaticIP <=> ~usingDHCP)

\* C23 witness: setup() completed on a lease whose address is fallbackIP:
\* the helper is in DHCP mode and the sketch believes it is on the fallback.
C23_Witness ==
  /\ call.op = "begin"
  /\ call.ret = TRUE
  /\ pc = "loop"
  /\ usingDHCP
  /\ cfg.src = "dhcp"
  /\ cfg.ip = sketchFallbackIP
  /\ usingStaticIP

\* every event of a kind comes after position p
AllAfter(kind, p, tr) == \A i \in DOMAIN tr : tr[i][1] = kind => i > p

\* C24: in one begin() call the DHCP attempt comes first, before any
\* hardware query, link query, static configuration, delay or assignment;
\* the hardware query comes only after a failed attempt, the first link query
\* of the fallback only after a hardware query that found the chip, then the
\* static configuration call, the settle delay, the mode assignment; and
\* lastLinkCheck is assigned last, right before return true. (The report
\* between the mode assignment and the anchor reads the live configuration
\* and the link once more.)
C24_OrderInBegin ==
  call.op = "begin" =>
    LET tr == call.trace
        dhcp == First(DhcpCall, tr)
        hw == First("hardwareStatus", tr)
        lnk == First("linkStatus", tr)
        static == First(StaticCall, tr)
        settle == First("delay", tr)
        mode == First("usingDHCP=", tr)
        anchor == First("lastLinkCheck=", tr)
    IN /\ Count(DhcpCall, tr) = 1
       /\ \A kind \in {"hardwareStatus", "linkStatus", StaticCall, "delay",
                       "usingDHCP=", "lastLinkCheck=", "localIP"} :
            AllAfter(kind, dhcp, tr)
       /\ Count("lastLinkStatus=", tr) = 0
       /\ DhcpResult(tr) # 0 =>
            /\ hw = 0 /\ static = 0 /\ settle = 0
            /\ call.ret = TRUE
       /\ DhcpResult(tr) = 0 => (Count("hardwareStatus", tr) = 1 /\ dhcp < hw)
       /\ call.ret = FALSE =>
            (lnk = 0 /\ static = 0 /\ settle = 0 /\ mode = 0 /\ anchor = 0)
       /\ (call.ret = TRUE /\ DhcpResult(tr) = 0) =>
            /\ tr[hw][2] # "EthernetNoHardware"
            /\ hw < lnk /\ lnk < static
            /\ settle = static + 1
            /\ settle < mode
            /\ Count(StaticCall, tr) = 1 /\ Count("delay", tr) = 1
       /\ call.ret = TRUE =>
            /\ Count("usingDHCP=", tr) = 1
            /\ Count("lastLinkCheck=", tr) = 1
            /\ mode < anchor
            /\ anchor = Len(tr) - 1
            /\ tr[Len(tr)] = <<"return", TRUE>>

\* C24 witness: a fallback begin() with the cable connected, every step of
\* the order present.
C24_Witness ==
  /\ call.op = "begin"
  /\ call.ret = TRUE
  /\ link = "LinkON"
  /\ First("hardwareStatus", call.trace) > First(DhcpCall, call.trace)
  /\ First(StaticCall, call.trace) > First("linkStatus", call.trace)
  /\ First("lastLinkCheck=", call.trace) > First("usingDHCP=", call.trace)
  /\ First("usingDHCP=", call.trace) > First("delay", call.trace)
  /\ First("delay", call.trace) > First(StaticCall, call.trace)
  /\ First(StaticCall, call.trace) > 0

\* C25: a begin() that returns false leaves usingDHCP, lastLinkStatus and
\* lastLinkCheck as they were and writes none of them; so after a begin()
\* that failed in DHCP mode the mode is still DHCP and a maintain() call
\* made then still makes the Ethernet.maintain() call.
C25_FailedBeginWritesNothing ==
  [][ /\ (call'.op = "begin" /\ call'.ret = FALSE) =>
           /\ UNCHANGED <<usingDHCP, lastLinkStatus, lastLinkCheck>>
           /\ Count("usingDHCP=", call'.trace) = 0
           /\ Count("lastLinkStatus=", call'.trace) = 0
           /\ Count("lastLinkCheck=", call'.trace) = 0
      /\ (call.op = "begin" /\ call.ret = FALSE /\ cfg.src = "dhcp"
            /\ call'.op = "maintain") =>
           (usingDHCP /\ Count("Ethernet.maintain", call'.trace) = 1)
    ]_vars

\* C25 witness: begin() failed on a device that holds a lease and has
\* already logged a connected cable: mode, observation and anchor are kept.
C25_Witness ==
  /\ call.op = "begin"
  /\ call.ret = FALSE
  /\ usingDHCP
  /\ cfg.src = "dhcp"
  /\ lastLinkStatus = "LinkON"
  /\ lastLinkCheck # millis(now)

\* C26: as long as less than one round of the clock (ClockMod, for 2^32 ms)
\* has truly passed since lastLinkCheck was written, the difference
\* millis() - lastLinkCheck taken modulo the clock's width is the true
\* elapsed time, so a maintain() call runs the link check exactly when the
\* true elapsed time is at least linkCheckInterval; this includes the calls
\* made after millis() has wrapped past zero while lastLinkCheck has not.
C26_GateAcrossWrap ==
  [][ (call'.op = "maintain" /\ now' - anchorTime < ClockMod) =>
        /\ lastLinkCheck = millis(anchorTime)
        /\ elapsed(millis(now'), lastLinkCheck) = now' - anchorTime
        /\ Checked(call') <=> now' - anchorTime >= call'.args[1]
    ]_vars

\* C26 witness: the first check after a begin() that returned before the
\* wrap, run after the wrap: millis() reads less than the anchor did.
C26_Witness ==
  /\ Checked(call)
  /\ checks = 1
  /\ beginTime >= 0
  /\ beginTime < ClockMod
  /\ now >= ClockMod
  /\ millis(now) < millis(beginTime)
  /\ call.args[1] = now - beginTime

\* ------------------------------------------------------------- BasicUsage, run forever

\* setup() of BasicUsage: begin(mac, fallbackIP); a false return halts the
\* sketch in while (true) delay(1000), otherwise loop() starts.
\* (printConfig() prints only.)
PollSetup ==
  /\ pc = "idle"
  /\ now = 0
  /\ cfg.src = "none"
  /\ \E ok \in BOOLEAN :
       begin(sketchMac, sketchFallbackIP, ZeroIP, <<255, 255, 255, 0>>, ZeroIP,
             DHCP_TIMEOUT, ok, AnyLease)
  /\ pc' = (IF call'.ret = TRUE THEN "poll" ELSE "halted")
  /\ UNCHANGED <<timer, stopwatch, sketch>>

\* loop(): EthernetHelper::maintain(linkCheckInterval); the transition lines
\* of the call are counted. (isLinkUp() and the sketch's own messages print
\* only.)
PollMaintain ==
  /\ pc = "poll"
  /\ \E linkCheckInterval \in Intervals, result \in {0, 1} :
       maintain(linkCheckInterval, result, AnyLease)
  /\ logged' = (IF logged < 0 THEN logged
                ELSE logged + TransitionEntries(call'.trace))
  /\ pc' = "pause"
  /\ UNCHANGED <<beginTime, checks, anchorTime, timer, sketch>>

\* loop(): delay(100), a tenth of the time unit: the clock reads the same or
\* one more, and it goes round (millis() wraps) as the loop never ends
PollDelay(passed) ==
  /\ pc = "pause"
  /\ now' = (now + passed) % ClockMod
  /\ call' = NoCall
  /\ pc' = "poll"
  /\ UNCHANGED <<helper, hardware, link, cfg, timer, stopwatch, sketch>>

\* the cable is plugged or pulled: the count of transition lines starts anew
PollLinkChange ==
  /\ link' \in LinkStatuses \ {link}
  /\ call' = NoCall
  /\ logged' = 0
  /\ UNCHANGED <<helper, now, hardware, cfg, beginTime, checks, anchorTime,
                 control, sketch>>

PollNext ==
  \/ PollSetup
  \/ PollMaintain
  \/ \E passed \in {0, 1} : PollDelay(passed)
  \/ PollLinkChange

\* BasicUsage for ever: the sketch keeps running (setup() returns, loop() is
\* entered again and again) and delay(100) lets the clock advance; the cable
\* owes nothing
PollSpec ==
  /\ Init
  /\ [][PollNext]_vars
  /\ WF_vars(PollSetup \/ PollMaintain \/ \E passed \in {0, 1} : PollDelay(passed))
  /\ SF_vars(PollDelay(1))

C28_FirstCheckLogs ==
  [][ (beginTime >= 0 /\ checks = 0 /\ Checked(call')) =>
        /\ lastLinkStatus = "Unknown"
        /\ TransitionEntries(call'.trace) = 1 <=> link # "Unknown"
        /\ link = "Unknown" => TransitionEntries(call'.trace) = 0
        /\ link = "LinkON" => PrintedAfter("Link status changed: ", call'.trace)
                                = {"Cable CONNECTED"}
        /\ link = "LinkOFF" => PrintedAfter("Link status changed: ", call'.trace)
                                 = {"Cable DISCONNECTED"}
    ]_vars

\* C28 witness: the first check after boot has printed the transition line
\* for a cable that was connected all along
C28_Witness ==
  /\ Checked(call)
  /\ checks = 1
  /\ beginTime >= 0
  /\ TransitionEntries(call.trace) = 1
  /\ link = "LinkON"
  /\ lastLinkStatus = "LinkON"

====
